---- MODULE Spec2Model ----
(***************************************************************************)
(* Model of the Details panel of the DAG grid view                         *)
(* (airflow/www/static/js/dag/details/index.tsx): the two tab mapping      *)
(* functions, the derived selection booleans, the tab-change handler, the  *)
(* auto-redirect effect and the rendered tab headers and panels.           *)
(***************************************************************************)
EXTENDS Integers, Sequences, FiniteSets

\* ------------------------------------------------------------------------
\* Bounds of the model
\* ------------------------------------------------------------------------
\* longest query string (number of key=value pairs) the panel is mounted with
MaxParams == 2
\* largest map index of a mapped task instance
MaxMapIndex == 1
\* largest tab index handed to the mapping functions and to the handler
MaxIndex == 7

\* ------------------------------------------------------------------------
\* JavaScript values
\* ------------------------------------------------------------------------
\* the value of an optional string that is not set
undefined == "<undefined>"
\* what URLSearchParams.get returns for a missing key
null == "<null>"
\* truthiness of an optional string: undefined, null and "" are falsy
Truthy(s) == s # undefined /\ s # null /\ s # ""

\* ------------------------------------------------------------------------
\* Tab mapping functions
\* ------------------------------------------------------------------------
TAB_PARAM == "tab"

\* tabToIndex with the case labels "mapped_tasks" and "xcom" sharing index 5
tabToIndexShifted(t) ==
  CASE t = "graph" -> 1
    [] t = "gantt" -> 2
    [] t = "code" -> 3
    [] t = "logs" -> 4
    [] t = "mapped_tasks" -> 5
    [] t = "xcom" -> 5
    [] OTHER -> 0

tabToIndex(t) ==
  CASE t = "graph" -> 1
    [] t = "gantt" -> 2
    [] t = "code" -> 3
    [] t = "logs" -> 4
    [] t = "mapped_tasks" -> 4
    [] t = "xcom" -> 5
    [] t = "details" -> 0
    [] OTHER -> 0

\* indexToTab with the results of cases 2 and 3 exchanged
indexToTabSwapped(index, isTI, isMTS) ==
  CASE index = 1 -> "graph"
    [] index = 2 -> "code"
    [] index = 3 -> "gantt"
    [] index = 4 -> IF isMTS THEN "mapped_tasks"
                    ELSE IF isTI THEN "logs" ELSE undefined
    [] index = 5 -> IF isTI THEN "xcom" ELSE undefined
    [] OTHER -> undefined

\* indexToTab without the context checks of cases 4 and 5
indexToTabNoContext(index, isTI, isMTS) ==
  CASE index = 1 -> "graph"
    [] index = 2 -> "gantt"
    [] index = 3 -> "code"
    [] index = 4 -> IF isMTS THEN "mapped_tasks" ELSE "logs"
    [] index = 5 -> "xcom"
    [] OTHER -> undefined

\* indexToTab writing the default tab's name for index 0
indexToTabDetails(index, isTI, isMTS) ==
  CASE index = 1 -> "graph"
    [] index = 2 -> "gantt"
    [] index = 3 -> "code"
    [] index = 4 -> IF isMTS THEN "mapped_tasks"
                    ELSE IF isTI THEN "logs" ELSE undefined
    [] index = 5 -> IF isTI THEN "xcom" ELSE undefined
    [] index = 0 -> "details"
    [] OTHER -> undefined

indexToTab(index, isTI, isMTS) ==
  CASE index = 1 -> "graph"
    [] index = 2 -> "gantt"
    [] index = 3 -> "code"
    [] index = 4 -> IF isMTS THEN "mapped_tasks"
                    ELSE IF isTI THEN "logs" ELSE undefined
    [] index = 5 -> IF isTI THEN "xcom" ELSE undefined
    [] index = 0 -> undefined
    [] OTHER -> undefined

\* ------------------------------------------------------------------------
\* URL query parameters: a sequence of <<key, value>> pairs
\* ------------------------------------------------------------------------
HasKey(sp, k) == \E i \in 1..Len(sp) : sp[i][1] = k

FirstIdx(sp, k) ==
  CHOOSE i \in 1..Len(sp) : sp[i][1] = k /\ \A j \in 1..(i - 1) : sp[j][1] # k

\* URLSearchParams.get: the first value of the key, null when missing
ParamsGet(sp, k) == IF HasKey(sp, k) THEN sp[FirstIdx(sp, k)][2] ELSE null

\* URLSearchParams.delete: every pair of the key goes
ParamsDelete(sp, k) == SelectSeq(sp, LAMBDA p : p[1] # k)

\* URLSearchParams.set: the first pair of the key takes the value and the
\* key's other pairs go; a missing key is appended
ParamsSet(sp, k, v) ==
  IF HasKey(sp, k)
  THEN LET f == FirstIdx(sp, k)
       IN  SubSeq(sp, 1, f - 1) \o << <<k, v>> >>
             \o ParamsDelete(SubSeq(sp, f + 1, Len(sp)), k)
  ELSE Append(sp, <<k, v>>)

\* the pairs of every key but k, in order
OtherParams(sp, k) == SelectSeq(sp, LAMBDA p : p[1] # k)

\* ------------------------------------------------------------------------
\* Grid data (useGridData): the runs and the task tree
\* ------------------------------------------------------------------------
dagRuns == {"run1"}

\* the nodes of the task tree: a group, a mapped group, a mapped task, a task
groups ==
  { [id |-> "group1", children |-> TRUE, isMapped |-> FALSE],
    [id |-> "mgroup", children |-> TRUE, isMapped |-> TRUE],
    [id |-> "mapped", children |-> FALSE, isMapped |-> TRUE],
    [id |-> "task", children |-> FALSE, isMapped |-> FALSE] }

\* the result of a lookup that finds no node
NoTask == [id |-> null, children |-> FALSE, isMapped |-> FALSE]

getTask(id) ==
  IF \E n \in groups : n.id = id
  THEN CHOOSE n \in groups : n.id = id
  ELSE NoTask

\* ------------------------------------------------------------------------
\* Values the state ranges over
\* ------------------------------------------------------------------------
RunIds == {undefined, "", "run1", "run0"}
TaskIds == {undefined, "group1", "mgroup", "mapped", "task", "ghost"}
\* an optional map index: <<>> is undefined, <<i>> is the index i
MapIndexes == {<<>>} \cup {<<i>> : i \in -1..MaxMapIndex}
TabValues ==
  {"details", "graph", "gantt", "code", "logs", "mapped_tasks", "xcom",
   "bogus", ""}
ParamPairs == {<<TAB_PARAM, v>> : v \in TabValues} \cup {<<"root", "a">>}
ParamSeqs ==
  UNION {[1..n -> ParamPairs] : n \in 0..MaxParams}

VARIABLES
  runId,         \* selected.runId
  taskId,        \* selected.taskId
  mapIndex,      \* selected.mapIndex
  searchParams,  \* the URL query parameters
  pc,            \* "effect": the effect is due after a render; "idle"
  lastEvent,     \* the last event handler that ran
  redirected,    \* the index the effect forced since the last event, or -1
  call           \* the last direct call of a mapping function

vars ==
  <<runId, taskId, mapIndex, searchParams, pc, lastEvent, redirected, call>>


\* ------------------------------------------------------------------------
\* Derived booleans of a render
\* ------------------------------------------------------------------------
isDag == ~Truthy(runId) /\ ~Truthy(taskId)
isDagRun == Truthy(runId) /\ ~Truthy(taskId)

group == getTask(taskId)
children == group.children
isMapped == group.isMapped
isGroup == children

\* isMappedTaskSummary without the test of mapIndex
isMappedTaskSummaryAnyIndex ==
  Truthy(taskId) /\ Truthy(runId) /\ ~isGroup /\ isMapped

isMappedTaskSummary ==
  Truthy(taskId) /\ Truthy(runId) /\ ~isGroup /\ isMapped /\ mapIndex = <<>>

isTaskInstance ==
  Truthy(taskId) /\ Truthy(runId) /\ ~isGroup /\ ~isMappedTaskSummary

showTaskDetails == Truthy(taskId) /\ ~Truthy(runId)

\* searchParams.get(TAB_PARAM) || undefined
tab ==
  LET got == ParamsGet(searchParams, TAB_PARAM)
  IN  IF Truthy(got) THEN got ELSE undefined

tabIndex == tabToIndex(tab)

\* dagRuns.find((r) => r.runId === runId): whether a run is found
run == runId \in dagRuns

\* ------------------------------------------------------------------------
\* Tab-change handler
\* ------------------------------------------------------------------------
\* onChangeTab building the new parameters from an empty query string
onChangeTabFresh(index) ==
  LET newTab == indexToTab(index, isTaskInstance, isMappedTaskSummary)
  IN  IF Truthy(newTab)
      THEN ParamsSet(<<>>, TAB_PARAM, newTab)
      ELSE <<>>

\* the parameters handed to setSearchParams
onChangeTab(index) ==
  LET newTab == indexToTab(index, isTaskInstance, isMappedTaskSummary)
  IN  IF Truthy(newTab)
      THEN ParamsSet(searchParams, TAB_PARAM, newTab)
      ELSE ParamsDelete(searchParams, TAB_PARAM)

\* ------------------------------------------------------------------------
\* Auto-redirect effect
\* ------------------------------------------------------------------------
tabCount == IF Truthy(runId) /\ Truthy(taskId) /\ ~isGroup THEN 5 ELSE 4

\* the effect with its two fallback indices exchanged
redirectIndexSwapped == IF ~Truthy(runId) /\ Truthy(taskId) THEN 1 ELSE 0

\* the index the effect falls back to
redirectIndex == IF ~Truthy(runId) /\ Truthy(taskId) THEN 0 ELSE 1

effectRedirects == tabCount = 4 /\ tabIndex > 3

\* ------------------------------------------------------------------------
\* Render tree: tab headers, tab panels, the Task Duration button
\* ------------------------------------------------------------------------
Opt(cond, name) == IF cond THEN <<name>> ELSE <<>>

TabList ==
  <<"Details", "Graph", "Gantt", "Code">>
    \o Opt(isTaskInstance, "Logs")
    \o Opt(isMappedTaskSummary, "Mapped Tasks")
    \o Opt(isTaskInstance, "XCom")

TabPanels ==
  <<"Details", "Graph", "Gantt", "Code">>
    \o Opt(isTaskInstance /\ run, "Logs")
    \o Opt(isMappedTaskSummary, "Mapped Tasks")
    \o Opt(isTaskInstance, "XCom")

\* the Task Duration button rendered for every selected task
showTaskDurationButtonAnyTask == Truthy(taskId)

showTaskDurationButton == Truthy(taskId) /\ Truthy(runId)

\* the panel Tabs shows for index={tabIndex}
ActivePanel ==
  IF tabIndex + 1 <= Len(TabPanels) THEN TabPanels[tabIndex + 1] ELSE "none"


\* ------------------------------------------------------------------------
\* The component: mount, event handlers, effect
\* ------------------------------------------------------------------------
Event(type, index) == [type |-> type, index |-> index]

\* the record of no direct call of a mapping function
NoCall ==
  [fn |-> "none", tab |-> undefined, index |-> 0, isTaskInstance |-> FALSE,
   isMappedTaskSummary |-> FALSE, outIndex |-> -1, outTab |-> undefined]

\* the panel is mounted with any selection and any query string; the effect
\* runs after the first render
Init ==
  /\ runId \in RunIds
  /\ taskId \in TaskIds
  /\ mapIndex \in MapIndexes
  /\ searchParams \in ParamSeqs
  /\ pc = "effect"
  /\ lastEvent = Event("mount", -1)
  /\ redirected = -1
  /\ call = NoCall

\* useEffect: runs after a render whose dependencies changed
Effect ==
  /\ pc = "effect"
  /\ IF effectRedirects
     THEN /\ searchParams' = onChangeTab(redirectIndex)
          /\ redirected' = redirectIndex
          /\ pc' = "effect"
     ELSE /\ pc' = "idle"
          /\ UNCHANGED <<searchParams, redirected>>
  /\ UNCHANGED <<runId, taskId, mapIndex, lastEvent, call>>

\* onSelect of the selection store: the selection becomes the one given
onSelect(r, t, m) ==
  /\ runId' = r
  /\ taskId' = t
  /\ mapIndex' = m

\* Tabs onChange={onChangeTab}: a click on the tab header at position index
ClickTab(index) ==
  /\ pc = "idle"
  /\ index + 1 \in 1..Len(TabList)
  /\ searchParams' = onChangeTab(index)
  /\ pc' = "effect"
  /\ lastEvent' = Event("tab", index)
  /\ redirected' = -1
  /\ UNCHANGED <<runId, taskId, mapIndex, call>>

\* the Task Duration button: onChangeTab(0); onSelect({ taskId })
ClickTaskDuration ==
  /\ pc = "idle"
  /\ showTaskDurationButton
  /\ searchParams' = onChangeTab(0)
  /\ onSelect(undefined, taskId, <<>>)
  /\ pc' = "effect"
  /\ lastEvent' = Event("taskDuration", 0)
  /\ redirected' = -1
  /\ UNCHANGED call

\* BackToTaskSummary in the Details panel and in the Logs panel:
\* onSelect({ runId, taskId })
ClickBackToTaskSummary ==
  /\ pc = "idle"
  /\ \/ ActivePanel = "Details" /\ Truthy(runId) /\ Truthy(taskId)
     \/ ActivePanel = "Logs"
  /\ onSelect(runId, taskId, <<>>)
  /\ pc' = "effect"
  /\ lastEvent' = Event("back", -1)
  /\ redirected' = -1
  /\ UNCHANGED <<searchParams, call>>

\* a row of the Mapped Instances table:
\* onSelect({ runId, taskId, mapIndex: row.values.mapIndex })
ClickMappedRow(m) ==
  /\ pc = "idle"
  /\ ActivePanel = "Mapped Tasks"
  /\ onSelect(runId, taskId, <<m>>)
  /\ pc' = "effect"
  /\ lastEvent' = Event("row", -1)
  /\ redirected' = -1
  /\ UNCHANGED <<searchParams, call>>

\* useSelection: the selection is changed elsewhere in the dashboard
SelectionChange(r, t, m) ==
  /\ pc = "idle"
  /\ <<r, t, m>> # <<runId, taskId, mapIndex>>
  /\ onSelect(r, t, m)
  /\ pc' = "effect"
  /\ lastEvent' = Event("select", -1)
  /\ redirected' = -1
  /\ UNCHANGED <<searchParams, call>>

Next ==
  \/ Effect
  \/ \E index \in 0..MaxIndex : ClickTab(index)
  \/ ClickTaskDuration
  \/ ClickBackToTaskSummary
  \/ \E m \in 0..MaxMapIndex : ClickMappedRow(m)
  \/ \E r \in RunIds, t \in TaskIds, m \in MapIndexes : SelectionChange(r, t, m)

Spec == Init /\ [][Next]_vars

\* ------------------------------------------------------------------------
\* The handler on its own: onChangeTab called with any index in any context
\* ------------------------------------------------------------------------
InitHandler ==
  /\ runId \in RunIds
  /\ taskId \in TaskIds
  /\ mapIndex \in MapIndexes
  /\ searchParams \in ParamSeqs
  /\ pc = "idle"
  /\ lastEvent = Event("mount", -1)
  /\ redirected = -1
  /\ call = NoCall

CallOnChangeTab(index) ==
  /\ searchParams' = onChangeTab(index)
  /\ lastEvent' = Event("tab", index)
  /\ UNCHANGED <<runId, taskId, mapIndex, pc, redirected, call>>

NextHandler == \E index \in -1..MaxIndex : CallOnChangeTab(index)

SpecHandler == InitHandler /\ [][NextHandler]_vars

\* ------------------------------------------------------------------------
\* The mapping functions on their own
\* ------------------------------------------------------------------------
TabInputs == TabValues \cup {undefined, "Graph"}

InitMap ==
  /\ runId = undefined
  /\ taskId = undefined
  /\ mapIndex = <<>>
  /\ searchParams = <<>>
  /\ pc = "idle"
  /\ lastEvent = Event("mount", -1)
  /\ redirected = -1
  /\ call \in [fn : {"none"}, tab : TabInputs, index : -1..MaxIndex,
               isTaskInstance : BOOLEAN, isMappedTaskSummary : BOOLEAN,
               outIndex : {-1}, outTab : {undefined}]

CallTabToIndex ==
  /\ call.fn = "none"
  /\ call' = [call EXCEPT !.fn = "tabToIndex", !.outIndex = tabToIndex(call.tab)]
  /\ UNCHANGED <<runId, taskId, mapIndex, searchParams, pc, lastEvent, redirected>>

CallIndexToTab ==
  /\ call.fn = "none"
  /\ call' = [call EXCEPT !.fn = "indexToTab",
                !.outTab = indexToTab(call.index, call.isTaskInstance,
                                      call.isMappedTaskSummary)]
  /\ UNCHANGED <<runId, taskId, mapIndex, searchParams, pc, lastEvent, redirected>>

\* indexToTab(tabToIndex(name), isTaskInstance, isMappedTaskSummary)
CallRoundTrip ==
  /\ call.fn = "none"
  /\ call' = [call EXCEPT !.fn = "roundTrip",
                !.outIndex = tabToIndex(call.tab),
                !.outTab = indexToTab(tabToIndex(call.tab), call.isTaskInstance,
                                      call.isMappedTaskSummary)]
  /\ UNCHANGED <<runId, taskId, mapIndex, searchParams, pc, lastEvent, redirected>>

NextMap == CallTabToIndex \/ CallIndexToTab \/ CallRoundTrip

SpecMap == InitMap /\ [][NextMap]_vars


\* ------------------------------------------------------------------------
\* Properties
\* ------------------------------------------------------------------------
runAndTask == Truthy(runId) /\ Truthy(taskId)

\* the six cases of a selection that hold in the current state
SelectionCases ==
  {c \in {"isDag", "isDagRun", "isMappedTaskSummary", "isTaskInstance",
          "showTaskDetails", "runTaskGroup"} :
     CASE c = "isDag" -> isDag
       [] c = "isDagRun" -> isDagRun
       [] c = "isMappedTaskSummary" -> isMappedTaskSummary
       [] c = "isTaskInstance" -> isTaskInstance
       [] c = "showTaskDetails" -> showTaskDetails
       [] c = "runTaskGroup" -> runAndTask /\ isGroup}

\* C1: for every selection and every looked-up node exactly one of isDag,
\* isDagRun, isMappedTaskSummary, isTaskInstance, showTaskDetails and "run and
\* task selected on a group" holds; with run and task set on a mapped node that
\* is no group, isMappedTaskSummary holds exactly when mapIndex is undefined
\* and isTaskInstance exactly when it is defined.
C1_SelectionPartition ==
  /\ Cardinality(SelectionCases) = 1
  /\ (runAndTask /\ ~isGroup /\ isMapped) =>
       /\ isMappedTaskSummary <=> (mapIndex = <<>>)
       /\ isTaskInstance <=> (mapIndex # <<>>)

\* a row of the Mapped Instances table was clicked: a mapped node that is no
\* group, with map index 1
C1_Witness ==
  /\ lastEvent.type = "row"
  /\ runId = "run1" /\ taskId = "mapped" /\ mapIndex = <<1>>
  /\ isTaskInstance /\ ~isMappedTaskSummary
  /\ SelectionCases = {"isTaskInstance"}

\* C2: once the effect has run after a selection or tab change, the active tab
\* index is the index of a tab header shown for the selection.
C2_ActiveTabShown == pc = "idle" => tabIndex + 1 <= Len(TabList)

\* C3: a run of the effect with only 4 visible tabs (not run and task on a
\* node that is no group) and a tab index above 3 moves the active tab to
\* index 0, removing the tab parameter, when a task is selected with no run and
\* to index 1 (tab=graph) otherwise; any other run of the effect leaves the
\* query parameters as they are; the selection is never touched.
C3_EffectRedirect ==
  [][pc = "effect" =>
       /\ <<runId, taskId, mapIndex>>' = <<runId, taskId, mapIndex>>
       /\ IF ~(runAndTask /\ ~isGroup) /\ tabIndex > 3
          THEN IF Truthy(taskId) /\ ~Truthy(runId)
               THEN tabIndex' = 0 /\ ParamsGet(searchParams', TAB_PARAM) = null
               ELSE tabIndex' = 1 /\ ParamsGet(searchParams', TAB_PARAM) = "graph"
          ELSE searchParams' = searchParams]_vars

\* the selection changed to the bare workflow while a tab above 3 was active,
\* and the effect moved the active tab to Graph
C3_Witness ==
  /\ lastEvent.type = "select" /\ isDag
  /\ redirected = 1 /\ tabIndex = 1 /\ tab = "graph"
  /\ pc = "idle"

\* C4: onChangeTab(index) sets the tab parameter to indexToTab(index,
\* isTaskInstance, isMappedTaskSummary) when that name is defined and deletes
\* it otherwise; every other query parameter keeps its place and value.
C4_HandlerFrame ==
  [][LET newTab == indexToTab(lastEvent'.index, isTaskInstance,
                              isMappedTaskSummary)
     IN  /\ ParamsGet(searchParams', TAB_PARAM)
              = (IF newTab # undefined THEN newTab ELSE null)
         /\ OtherParams(searchParams', TAB_PARAM)
              = OtherParams(searchParams, TAB_PARAM)
         /\ Len(searchParams') <= Len(OtherParams(searchParams, TAB_PARAM)) + 1
         /\ <<runId, taskId, mapIndex>>' = <<runId, taskId, mapIndex>>]_vars

\* onChangeTab(4) on a task instance wrote tab=logs next to another parameter
C4_Witness ==
  /\ lastEvent = Event("tab", 4)
  /\ isTaskInstance
  /\ ParamsGet(searchParams, TAB_PARAM) = "logs"
  /\ ParamsGet(searchParams, "root") = "a"

\* the table of tabToIndex
TabToIndexTable(t) ==
  IF t = "graph" THEN 1
  ELSE IF t = "gantt" THEN 2
  ELSE IF t = "code" THEN 3
  ELSE IF t \in {"logs", "mapped_tasks"} THEN 4
  ELSE IF t = "xcom" THEN 5
  ELSE 0

\* the table of indexToTab
IndexToTabTable(i, isTI, isMTS) ==
  IF i = 1 THEN "graph"
  ELSE IF i = 2 THEN "gantt"
  ELSE IF i = 3 THEN "code"
  ELSE IF i = 4 /\ isMTS THEN "mapped_tasks"
  ELSE IF i = 4 /\ isTI THEN "logs"
  ELSE IF i = 5 /\ isTI THEN "xcom"
  ELSE undefined

\* C5: tabToIndex returns 1, 2, 3, 4, 4, 5 for graph, gantt, code, logs,
\* mapped_tasks, xcom and 0 for details, unset or an unrecognized name;
\* indexToTab returns graph/gantt/code for 1/2/3, for 4 mapped_tasks if
\* isMappedTaskSummary else logs if isTaskInstance else unset, for 5 xcom if
\* isTaskInstance else unset, and unset for 0 and every other index.
C5_MappingTables ==
  /\ call.fn = "tabToIndex" => call.outIndex = TabToIndexTable(call.tab)
  /\ call.fn = "indexToTab" =>
       call.outTab = IndexToTabTable(call.index, call.isTaskInstance,
                                     call.isMappedTaskSummary)

\* indexToTab(4, true, true) returned mapped_tasks
C5_Witness ==
  /\ call.fn = "indexToTab" /\ call.index = 4
  /\ call.isTaskInstance /\ call.isMappedTaskSummary
  /\ call.outTab = "mapped_tasks"

\* C6: for every name in {graph, gantt, code} and every combination of the two
\* flags, indexToTab(tabToIndex(name), isTaskInstance, isMappedTaskSummary) is
\* the name.
C6_RoundTrip ==
  (call.fn = "roundTrip" /\ call.tab \in {"graph", "gantt", "code"})
    => call.outTab = call.tab

\* the round trip of "code" with both flags set
C6_Witness ==
  /\ call.fn = "roundTrip" /\ call.tab = "code"
  /\ call.isTaskInstance /\ call.isMappedTaskSummary
  /\ call.outIndex = 3 /\ call.outTab = "code"

\* C7: the Task Duration button is rendered exactly when a run and a task are
\* selected; a click on it keeps taskId, and from then until the next event the
\* selection is the task alone (no run, no map index), the tab parameter is
\* absent and the active tab index is 0.
C7_TaskDuration ==
  /\ [](showTaskDurationButton <=> runAndTask)
  /\ [](lastEvent.type = "taskDuration" =>
          /\ runId = undefined /\ mapIndex = <<>> /\ Truthy(taskId)
          /\ showTaskDetails
          /\ ParamsGet(searchParams, TAB_PARAM) = null
          /\ tabIndex = 0)
  /\ [][(pc = "idle" /\ lastEvent'.type = "taskDuration") =>
          (runAndTask /\ taskId' = taskId)]_vars

\* the button was clicked and the effect has run: the mapped task alone, on
\* the Details tab, with the other parameter kept
C7_Witness ==
  /\ lastEvent.type = "taskDuration" /\ pc = "idle"
  /\ taskId = "mapped" /\ runId = undefined /\ mapIndex = <<>>
  /\ tabIndex = 0 /\ ~HasKey(searchParams, TAB_PARAM)
  /\ HasKey(searchParams, "root")

\* C8: at most one of the Logs and Mapped Tasks headers is shown; the handler
\* leaves tab at logs or xcom only when isTaskInstance holds and at
\* mapped_tasks only when isMappedTaskSummary holds; in a context that is
\* neither, an index of 4 or 5 removes the parameter.
C8_WrittenTabValid ==
  /\ ~(isTaskInstance /\ isMappedTaskSummary)
  /\ ~(\E i, j \in 1..Len(TabList) :
         TabList[i] = "Logs" /\ TabList[j] = "Mapped Tasks")
  /\ lastEvent.type = "tab" =>
       /\ tab \in {"logs", "xcom"} => isTaskInstance
       /\ tab = "mapped_tasks" => isMappedTaskSummary
       /\ (lastEvent.index \in {4, 5} /\ ~isTaskInstance /\ ~isMappedTaskSummary)
            => ParamsGet(searchParams, TAB_PARAM) = null

\* onChangeTab(5) on a mapped task summary removed the parameter
C8_Witness ==
  /\ lastEvent = Event("tab", 5)
  /\ isMappedTaskSummary
  /\ ParamsGet(searchParams, TAB_PARAM) = null
  /\ HasKey(searchParams, "root")

\* C9: the tab headers and the tab panels correspond one to one: as many
\* panels as headers, and the panel at each position is the content of the
\* header at that position.
C9_HeadersMatchPanels == TabList = TabPanels

\* C10: after a click on the tab header at position i, and until the next
\* event, the active index computed from the URL is i, that is
\* tabToIndex(indexToTab(i, isTaskInstance, isMappedTaskSummary)) = i, and the
\* effect has not moved it.
C10_ClickSelectsTab ==
  lastEvent.type = "tab" =>
    /\ tabIndex = lastEvent.index
    /\ tabToIndex(indexToTab(lastEvent.index, isTaskInstance,
                             isMappedTaskSummary)) = lastEvent.index
    /\ redirected = -1

\* the Mapped Tasks header of a mapped task summary was clicked and the
\* effect has run
C10_Witness ==
  /\ lastEvent = Event("tab", 4) /\ pc = "idle"
  /\ isMappedTaskSummary
  /\ tab = "mapped_tasks" /\ tabIndex = 4 /\ redirected = -1

====
